---- MODULE Spec2Model ----
(***************************************************************************)
(* A model of two pieces of the repository:                                *)
(*   - FileHeader001 (crates/crypto/src/header/schema/file_001.rs): the    *)
(*     v1 encrypted file header with its keyslots and objects;             *)
(*   - JobRestorer::restore (core/src/job/mod.rs): restoring a persisted   *)
(*     job from its seed bytes.                                            *)
(* Cryptography is symbolic: a ciphertext remembers the key, nonce,        *)
(* algorithm and associated data it was made with, and decryption          *)
(* succeeds exactly when all of them match.                                *)
(***************************************************************************)
EXTENDS Integers, Sequences, FiniteSets, TLC

VARIABLES
    header,         \* the FileHeader001 value: aad, algorithm, nonce, keyslots, objects
    before,         \* the header as it was when the last call started
    op,             \* name of the last Header operation called ("new" after construction)
    args,           \* the arguments of the last call
    ret,            \* what the last call returned
    trials,         \* the hashing / decryption attempts the last call made, in order
    okKeyslots,     \* number of add_keyslot calls that returned Ok
    okObjects,      \* number of add_object calls that returned Ok
    added,          \* (master_key, data) of every add_object call that returned Ok, in call order
    pc,             \* position of the restore call in flight
    report,         \* restore's `report` argument
    job_state_data, \* restore's `job_state_data` argument (the seed bytes)
    decoded,        \* the JobState decoded from the seed by the call in flight
    dispatched,     \* every internal_dispatch_job call so far: (report, state), in order
    calls,          \* internal_dispatch_job calls made by the restore call in flight
    restoreRet,     \* what the last restore call returned
    restores        \* number of restore calls started

headerVars == <<header, before, op, args, ret, trials, okKeyslots, okObjects, added>>
jobVars == <<pc, report, job_state_data, decoded, dispatched, calls, restoreRet, restores>>
vars == <<headerVars, jobVars>>

(***************************************************************************)
(* Bounds of the model and constants of the program                        *)
(***************************************************************************)
KEYSLOT_LIMIT == 2
OBJECT_LIMIT == 2

\* longest candidate sequence handed to decrypt_master_key
MaxCandidates == 2
\* plaintexts are 1..MaxData
MaxData == 2
\* longest step queue of a persisted JobState
MaxSteps == 2
\* largest step_number of a persisted JobState
MaxStepNumber == 1
\* number of restore calls
MaxRestores == 2

Algorithms == {"XChaCha20Poly1305", "Aes256Gcm"}
HashingAlgorithms == {"Argon2id", "BalloonBlake3"}
ObjectTypes == {"Metadata"}
Passwords == {"A", "B"}
MasterKeys == {"K1", "K2"}
ContentSalts == {"cs1"}
Salts == {"s1"}
Nonces == {"n1"}
Aads == {"aad1"}
Data == 1..MaxData
FILE_KEY_CONTEXT == "FILE_KEY"
Reports == {"report1", "report2"}

(***************************************************************************)
(* Result<T>                                                               *)
(***************************************************************************)
Ok(v) == [ok |-> TRUE, val |-> v]
Err(e) == [ok |-> FALSE, err |-> e]

(***************************************************************************)
(* Keys and symbolic cryptography                                          *)
(***************************************************************************)
\* HashingAlgorithm::hash(password, salt, None): the KDF either fails or yields
\* a key determined by the algorithm, the password and the salt.  `failing` is
\* the set of algorithms whose KDF fails in this call.
Hash(hashing_algorithm, password, salt, failing) ==
    IF hashing_algorithm \in failing
    THEN Err("Hash")
    ELSE Ok([kind |-> "hashed", ha |-> hashing_algorithm, pw |-> password, cs |-> salt])

\* Key::derive(key, salt, context)
Derive(key, salt, context) == [kind |-> "derived", from |-> key, salt |-> salt, ctx |-> context]

\* Encryptor::encrypt_bytes(key, nonce, algorithm, bytes, aad), when it succeeds
Encrypt(key, nonce, algorithm, bytes, aad) ==
    [key |-> key, nonce |-> nonce, alg |-> algorithm, pt |-> bytes, aad |-> aad]

\* Decryptor::decrypt_bytes(key, nonce, algorithm, bytes, aad)
Decrypt(key, nonce, algorithm, bytes, aad) ==
    IF bytes.key = key /\ bytes.nonce = nonce /\ bytes.alg = algorithm /\ bytes.aad = aad
    THEN Ok(bytes.pt)
    ELSE Err("Decrypt")

\* the hashed keys a caller can hold
HashedKeys ==
    {Hash(ha, pw, cs, {}).val : ha \in HashingAlgorithms, pw \in Passwords, cs \in ContentSalts}

(***************************************************************************)
(* Keyslot001                                                              *)
(***************************************************************************)
\* Keyslot001::new with the generated nonce and salt made explicit
Keyslot001_new(algorithm, hashing_algorithm, content_salt, hashed_key, master_key, nonce, salt) ==
    [hashing_algorithm |-> hashing_algorithm,
     salt |-> salt,
     content_salt |-> content_salt,
     master_key |-> Encrypt(Derive(hashed_key, salt, FILE_KEY_CONTEXT), nonce, algorithm,
                            master_key, <<>>),
     nonce |-> nonce]

\* Keyslot001::decrypt
Keyslot001_decrypt(self, algorithm, key) ==
    Decrypt(Derive(key, self.salt, FILE_KEY_CONTEXT), self.nonce, algorithm,
            self.master_key, <<>>)

(***************************************************************************)
(* FileHeaderObject001                                                     *)
(***************************************************************************)
\* FileHeaderObject001::new with the generated nonce made explicit
FileHeaderObject001_new(object_type, algorithm, master_key, aad, data, nonce) ==
    [object_type |-> object_type,
     nonce |-> nonce,
     data |-> Encrypt(master_key, nonce, algorithm, data, aad)]

\* FileHeaderObject001::decrypt
FileHeaderObject001_decrypt(self, algorithm, aad, master_key) ==
    Decrypt(master_key, self.nonce, algorithm, self.data, aad)

(***************************************************************************)
(* FileHeader001: pure parts                                               *)
(***************************************************************************)
\* FileHeader001::new with the generated aad and nonce made explicit
FileHeader001_new(algorithm, aad, nonce) ==
    [aad |-> aad, algorithm |-> algorithm, nonce |-> nonce,
     keyslots |-> <<>>, objects |-> <<>>]

count_objects(h) == Len(h.objects)
count_keyslots(h) == Len(h.keyslots)

(***************************************************************************)
(* FileHeader001: the Header operations.  Each operator takes the header   *)
(* (`self`) and the call's arguments and yields the header after the call, *)
(* the value returned and the attempts made.                               *)
(***************************************************************************)
\* self.objects[index]: indexing a Vec out of bounds panics
ObjectAt(self, index) ==
    IF index + 1 \in DOMAIN self.objects THEN Ok(self.objects[index + 1]) ELSE Err("panic")

\* decrypt_object with the bounds check off by one (`index > len`)
decrypt_object_index_gt(self, index, master_key) ==
    IF index > Len(self.objects) \/ self.objects = <<>>
    THEN [self |-> self, ret |-> Err("Index"), trials |-> <<>>]
    ELSE LET o == ObjectAt(self, index) IN
         IF ~o.ok
         THEN [self |-> self, ret |-> o, trials |-> <<>>]
         ELSE [self |-> self,
               ret |-> FileHeaderObject001_decrypt(o.val, self.algorithm, self.aad, master_key),
               trials |-> <<[what |-> "decrypt", index |-> index]>>]

\* Header::decrypt_object
decrypt_object(self, index, master_key) ==
    IF index >= Len(self.objects) \/ self.objects = <<>>
    THEN [self |-> self, ret |-> Err("Index"), trials |-> <<>>]
    ELSE LET o == ObjectAt(self, index) IN
         IF ~o.ok
         THEN [self |-> self, ret |-> o, trials |-> <<>>]
         ELSE [self |-> self,
               ret |-> FileHeaderObject001_decrypt(o.val, self.algorithm, self.aad, master_key),
               trials |-> <<[what |-> "decrypt", index |-> index]>>]

\* add_keyslot with the capacity check off by one (`len > KEYSLOT_LIMIT`)
add_keyslot_len_gt(self, hashing_algorithm, content_salt, hashed_key, master_key, nonce, salt, encrypted) ==
    IF Len(self.keyslots) > KEYSLOT_LIMIT
    THEN [self |-> self, ret |-> Err("TooManyKeyslots"), trials |-> <<>>]
    ELSE IF ~encrypted
    THEN [self |-> self, ret |-> Err("Encrypt"), trials |-> <<>>]
    ELSE [self |-> [self EXCEPT !.keyslots =
                       Append(@, Keyslot001_new(self.algorithm, hashing_algorithm, content_salt,
                                                hashed_key, master_key, nonce, salt))],
          ret |-> Ok("unit"),
          trials |-> <<>>]

\* Header::add_keyslot.  `nonce` and `salt` are what Keyslot001::new generates;
\* `encrypted` tells whether its encryption succeeds (the `?` on line 59).
add_keyslot(self, hashing_algorithm, content_salt, hashed_key, master_key, nonce, salt, encrypted) ==
    IF Len(self.keyslots) + 1 > KEYSLOT_LIMIT
    THEN [self |-> self, ret |-> Err("TooManyKeyslots"), trials |-> <<>>]
    ELSE IF ~encrypted
    THEN [self |-> self, ret |-> Err("Encrypt"), trials |-> <<>>]
    ELSE [self |-> [self EXCEPT !.keyslots =
                       Append(@, Keyslot001_new(self.algorithm, hashing_algorithm, content_salt,
                                                hashed_key, master_key, nonce, salt))],
          ret |-> Ok("unit"),
          trials |-> <<>>]

\* add_object with the capacity check off by one (`len > OBJECT_LIMIT`)
add_object_len_gt(self, object_type, master_key, data, nonce, encrypted) ==
    IF Len(self.objects) > OBJECT_LIMIT
    THEN [self |-> self, ret |-> Err("TooManyObjects"), trials |-> <<>>]
    ELSE IF ~encrypted
    THEN [self |-> self, ret |-> Err("Encrypt"), trials |-> <<>>]
    ELSE [self |-> [self EXCEPT !.objects =
                       Append(@, FileHeaderObject001_new(object_type, self.algorithm, master_key,
                                                         self.aad, data, nonce))],
          ret |-> Ok("unit"),
          trials |-> <<>>]

\* add_object that inserts the new object at the front of the Vec
add_object_insert_front(self, object_type, master_key, data, nonce, encrypted) ==
    IF Len(self.objects) + 1 > OBJECT_LIMIT
    THEN [self |-> self, ret |-> Err("TooManyObjects"), trials |-> <<>>]
    ELSE IF ~encrypted
    THEN [self |-> self, ret |-> Err("Encrypt"), trials |-> <<>>]
    ELSE [self |-> [self EXCEPT !.objects =
                       <<FileHeaderObject001_new(object_type, self.algorithm, master_key,
                                                 self.aad, data, nonce)>> \o @],
          ret |-> Ok("unit"),
          trials |-> <<>>]

\* Header::add_object.  `nonce` is what FileHeaderObject001::new generates;
\* `encrypted` tells whether its encryption succeeds (the `?` on line 114).
add_object(self, object_type, master_key, data, nonce, encrypted) ==
    IF Len(self.objects) + 1 > OBJECT_LIMIT
    THEN [self |-> self, ret |-> Err("TooManyObjects"), trials |-> <<>>]
    ELSE IF ~encrypted
    THEN [self |-> self, ret |-> Err("Encrypt"), trials |-> <<>>]
    ELSE [self |-> [self EXCEPT !.objects =
                       Append(@, FileHeaderObject001_new(object_type, self.algorithm, master_key,
                                                         self.aad, data, nonce))],
          ret |-> Ok("unit"),
          trials |-> <<>>]

\* the inner loop of decrypt_master_key: `for v in &self.keyslots`, from slot k on,
\* for the c-th candidate
RECURSIVE TryKeyslots(_, _, _, _, _)
TryKeyslots(self, keys, c, k, tr) ==
    IF k > Len(self.keyslots)
    THEN [found |-> FALSE, trials |-> tr]
    ELSE LET r == Keyslot001_decrypt(self.keyslots[k], self.algorithm, keys[c])
             tr2 == Append(tr, [what |-> "decrypt", key |-> c, slot |-> k])
         IN  IF r.ok
             THEN [found |-> TRUE, key |-> r.val, trials |-> tr2]
             ELSE TryKeyslots(self, keys, c, k + 1, tr2)

\* the outer loop of decrypt_master_key: `for hashed_key in keys`, from candidate c on
RECURSIVE TryKeys(_, _, _, _)
TryKeys(self, keys, c, tr) ==
    IF c > Len(keys)
    THEN [self |-> self, ret |-> Err("IncorrectPassword"), trials |-> tr]
    ELSE LET r == TryKeyslots(self, keys, c, 1, tr) IN
         IF r.found
         THEN [self |-> self, ret |-> Ok(r.key), trials |-> r.trials]
         ELSE TryKeys(self, keys, c + 1, r.trials)

\* decrypt_master_key with the loops nested the other way round: for each
\* keyslot, every candidate
RECURSIVE TryCandidatesOnSlot(_, _, _, _, _)
TryCandidatesOnSlot(self, keys, c, k, tr) ==
    IF c > Len(keys)
    THEN [found |-> FALSE, trials |-> tr]
    ELSE LET r == Keyslot001_decrypt(self.keyslots[k], self.algorithm, keys[c])
             tr2 == Append(tr, [what |-> "decrypt", key |-> c, slot |-> k])
         IN  IF r.ok
             THEN [found |-> TRUE, key |-> r.val, trials |-> tr2]
             ELSE TryCandidatesOnSlot(self, keys, c + 1, k, tr2)

RECURSIVE TrySlotsFirst(_, _, _, _)
TrySlotsFirst(self, keys, k, tr) ==
    IF k > Len(self.keyslots)
    THEN [self |-> self, ret |-> Err("IncorrectPassword"), trials |-> tr]
    ELSE LET r == TryCandidatesOnSlot(self, keys, 1, k, tr) IN
         IF r.found
         THEN [self |-> self, ret |-> Ok(r.key), trials |-> r.trials]
         ELSE TrySlotsFirst(self, keys, k + 1, r.trials)

decrypt_master_key_slots_first(self, keys) ==
    IF self.keyslots = <<>>
    THEN [self |-> self, ret |-> Err("NoKeyslots"), trials |-> <<>>]
    ELSE TrySlotsFirst(self, keys, 1, <<>>)

\* Header::decrypt_master_key
decrypt_master_key(self, keys) ==
    IF self.keyslots = <<>>
    THEN [self |-> self, ret |-> Err("NoKeyslots"), trials |-> <<>>]
    ELSE TryKeys(self, keys, 1, <<>>)

\* the password loop giving up at the first keyslot that fails to decrypt
TryPassword_first_slot_only(self, password, failing, k, tr) ==
    IF k > Len(self.keyslots)
    THEN [self |-> self, ret |-> Err("IncorrectPassword"), trials |-> tr]
    ELSE LET v == self.keyslots[k]
             key == Hash(v.hashing_algorithm, password, v.content_salt, failing)
             tr1 == Append(tr, [what |-> "hash", slot |-> k])
         IN  IF ~key.ok
             THEN [self |-> self, ret |-> Err("PasswordHash"), trials |-> tr1]
             ELSE LET r == Keyslot001_decrypt(v, self.algorithm, key.val)
                      tr2 == Append(tr1, [what |-> "decrypt", slot |-> k])
                  IN  IF r.ok
                      THEN [self |-> self, ret |-> Ok(r.val), trials |-> tr2]
                      ELSE [self |-> self, ret |-> Err("IncorrectPassword"), trials |-> tr2]

\* the password loop treating a hashing failure like a failed decryption: skip
\* the keyslot
RECURSIVE TryPassword_skip_hash_failure(_, _, _, _, _)
TryPassword_skip_hash_failure(self, password, failing, k, tr) ==
    IF k > Len(self.keyslots)
    THEN [self |-> self, ret |-> Err("IncorrectPassword"), trials |-> tr]
    ELSE LET v == self.keyslots[k]
             key == Hash(v.hashing_algorithm, password, v.content_salt, failing)
             tr1 == Append(tr, [what |-> "hash", slot |-> k])
         IN  IF ~key.ok
             THEN TryPassword_skip_hash_failure(self, password, failing, k + 1, tr1)
             ELSE LET r == Keyslot001_decrypt(v, self.algorithm, key.val)
                      tr2 == Append(tr1, [what |-> "decrypt", slot |-> k])
                  IN  IF r.ok
                      THEN [self |-> self, ret |-> Ok(r.val), trials |-> tr2]
                      ELSE TryPassword_skip_hash_failure(self, password, failing, k + 1, tr2)

\* the loop of decrypt_master_key_with_password, from slot k on
RECURSIVE TryPassword(_, _, _, _, _)
TryPassword(self, password, failing, k, tr) ==
    IF k > Len(self.keyslots)
    THEN [self |-> self, ret |-> Err("IncorrectPassword"), trials |-> tr]
    ELSE LET v == self.keyslots[k]
             key == Hash(v.hashing_algorithm, password, v.content_salt, failing)
             tr1 == Append(tr, [what |-> "hash", slot |-> k])
         IN  IF ~key.ok
             THEN [self |-> self, ret |-> Err("PasswordHash"), trials |-> tr1]
             ELSE LET r == Keyslot001_decrypt(v, self.algorithm, key.val)
                      tr2 == Append(tr1, [what |-> "decrypt", slot |-> k])
                  IN  IF r.ok
                      THEN [self |-> self, ret |-> Ok(r.val), trials |-> tr2]
                      ELSE TryPassword(self, password, failing, k + 1, tr2)

\* decrypt_master_key_with_password without the check for an empty keyslot list
decrypt_master_key_with_password_unchecked(self, password, failing) ==
    TryPassword(self, password, failing, 1, <<>>)

\* Header::decrypt_master_key_with_password
decrypt_master_key_with_password(self, password, failing) ==
    IF self.keyslots = <<>>
    THEN [self |-> self, ret |-> Err("NoKeyslots"), trials |-> <<>>]
    ELSE TryPassword(self, password, failing, 1, <<>>)

\* Header::serialize: bincode writes the fields in declaration order, each Vec
\* prefixed by its length
RECURSIVE Concat(_)
Concat(ss) == IF ss = <<>> THEN <<>> ELSE Head(ss) \o Concat(Tail(ss))

AlgorithmTag(algorithm) == IF algorithm = "XChaCha20Poly1305" THEN 0 ELSE 1

serialize(self) ==
    <<[aad |-> self.aad], [tag |-> AlgorithmTag(self.algorithm)], [nonce |-> self.nonce]>>
    \o <<[len |-> Len(self.keyslots)]>>
    \o Concat([k \in DOMAIN self.keyslots |->
                 LET v == self.keyslots[k] IN
                 <<[ha |-> v.hashing_algorithm], [salt |-> v.salt], [salt |-> v.content_salt],
                   [key |-> v.master_key], [nonce |-> v.nonce]>>])
    \o <<[len |-> Len(self.objects)]>>
    \o Concat([i \in DOMAIN self.objects |->
                 LET o == self.objects[i] IN
                 <<[type |-> o.object_type], [nonce |-> o.nonce], [bytes |-> o.data]>>])

(***************************************************************************)
(* JobState and its MessagePack encoding.  Init, Data and Step are small   *)
(* integers here; Option<Data> is <<>> (None) or <<d>> (Some(d)).          *)
(***************************************************************************)
JobState(init, data, steps, step_number) ==
    [init |-> init, data |-> data, steps |-> steps, step_number |-> step_number]

JobStates ==
    {JobState(1, data, steps, n) :
        data \in {<<>>, <<1>>},
        steps \in UNION {[1..len -> {1}] : len \in 0..MaxSteps},
        n \in 0..MaxStepNumber}

\* MessagePack markers: fixarray of n elements (0x90 + n), nil (0xc0), and the
\* byte the format never uses (0xc1)
FixArray(n) == 144 + n
Marker(name) == IF name = "nil" THEN 192 ELSE 193

\* rmp_serde writes a struct as the array of its fields, None as nil, Some(v) as
\* v, a VecDeque as an array and a small unsigned integer as one byte
to_vec(state) ==
    <<FixArray(4), state.init>>
    \o (IF state.data = <<>> THEN <<Marker("nil")>> ELSE state.data)
    \o <<FixArray(Len(state.steps))>> \o state.steps
    \o <<state.step_number>>

Failed == [ok |-> FALSE]
Read(v, next) == [ok |-> TRUE, val |-> v, next |-> next]

ReadInt(b, p) ==
    IF p <= Len(b) /\ b[p] \in 0..127 THEN Read(b[p], p + 1) ELSE Failed

ReadOption(b, p) ==
    IF p <= Len(b) /\ b[p] = Marker("nil")
    THEN Read(<<>>, p + 1)
    ELSE LET r == ReadInt(b, p) IN IF r.ok THEN Read(<<r.val>>, r.next) ELSE Failed

ReadArrayLen(b, p) ==
    IF p <= Len(b) /\ b[p] \in 144..159 THEN Read(b[p] - 144, p + 1) ELSE Failed

RECURSIVE ReadInts(_, _, _)
ReadInts(b, p, n) ==
    IF n = 0
    THEN Read(<<>>, p)
    ELSE LET r == ReadInt(b, p) IN
         IF ~r.ok
         THEN Failed
         ELSE LET rest == ReadInts(b, r.next, n - 1) IN
              IF rest.ok THEN Read(<<r.val>> \o rest.val, rest.next) ELSE Failed

\* rmp_serde::from_slice::<JobState<_>>: reads one value from the front of the bytes
from_slice(b) ==
    LET hd == ReadArrayLen(b, 1) IN
    IF ~hd.ok \/ hd.val # 4 THEN Err("DecodeError") ELSE
    LET init == ReadInt(b, hd.next) IN
    IF ~init.ok THEN Err("DecodeError") ELSE
    LET data == ReadOption(b, init.next) IN
    IF ~data.ok THEN Err("DecodeError") ELSE
    LET len == ReadArrayLen(b, data.next) IN
    IF ~len.ok THEN Err("DecodeError") ELSE
    LET steps == ReadInts(b, len.next, len.val) IN
    IF ~steps.ok THEN Err("DecodeError") ELSE
    LET step_number == ReadInt(b, steps.next) IN
    IF ~step_number.ok THEN Err("DecodeError") ELSE
    Ok(JobState(init.val, data.val, steps.val, step_number.val))

\* the seeds a report can carry: a persisted state, a truncated one, or one with
\* a damaged byte
Seeds ==
    LET good == {to_vec(s) : s \in JobStates}
    IN  good
        \cup UNION {{SubSeq(e, 1, n) : n \in 0..(Len(e) - 1)} : e \in good}
        \cup {[e EXCEPT ![i] = Marker("never used")] : e \in good, i \in 1..3}

(***************************************************************************)
(* JobRestorer::restore                                                    *)
(***************************************************************************)
\* JobManager::internal_dispatch_job: starts a worker primed with the state
internal_dispatch_job(workers, rep, state) ==
    Append(workers, [report |-> rep, state |-> state])

\* restore falling back to an empty state when the seed does not decode
restore_state_or_default(bytes) ==
    LET r == from_slice(bytes) IN
    IF r.ok THEN Ok(r.val) ELSE Ok(JobState(1, <<>>, <<>>, 0))

\* the `rmp_serde::from_slice(&job_state_data)?` argument: the decoded state, or
\* the early return of JobError::StateDecode (From<DecodeError>)
restore_state(bytes) ==
    LET r == from_slice(bytes) IN IF r.ok THEN Ok(r.val) ELSE Err("StateDecode")

\* restore handing over the state with its step counter reset
restore_dispatch_from_step_zero(workers, rep, state) ==
    internal_dispatch_job(workers, rep, [state EXCEPT !.step_number = 0])

\* the call `job_manager.internal_dispatch_job(ctx.clone(), report, <state>, Self::new())`
restore_dispatch(workers, rep, state) ==
    internal_dispatch_job(workers, rep, state)

(***************************************************************************)
(* Initial state: a header fresh from FileHeader001::new, no restore yet   *)
(***************************************************************************)
NoJobState == [init |-> 0, data |-> <<>>, steps |-> <<>>, step_number |-> 0]

InitJobVars ==
    /\ pc = "idle"
    /\ report = 0
    /\ job_state_data = <<>>
    /\ decoded = NoJobState
    /\ dispatched = <<>>
    /\ calls = 0
    /\ restoreRet = Ok("none")
    /\ restores = 0

Init ==
    /\ \E algorithm \in Algorithms, aad \in Aads, nonce \in Nonces :
          header = FileHeader001_new(algorithm, aad, nonce)
    /\ before = header
    /\ op = "new"
    /\ args = [none |-> TRUE]
    /\ ret = Ok("unit")
    /\ trials = <<>>
    /\ okKeyslots = 0
    /\ okObjects = 0
    /\ added = <<>>
    /\ InitJobVars

(***************************************************************************)
(* The calls a user of the header makes                                    *)
(***************************************************************************)
NoArgs == [none |-> TRUE]

\* the caller hashes a password with the algorithm and content salt it hands over
AddKeyslot ==
    \E hashing_algorithm \in HashingAlgorithms, content_salt \in ContentSalts,
       password \in Passwords, master_key \in MasterKeys,
       nonce \in Nonces, salt \in Salts, encrypted \in BOOLEAN :
        LET hashed_key == Hash(hashing_algorithm, password, content_salt, {}).val
            r == add_keyslot(header, hashing_algorithm, content_salt, hashed_key, master_key,
                             nonce, salt, encrypted)
        IN  /\ header' = r.self
            /\ before' = header
            /\ op' = "add_keyslot"
            /\ args' = NoArgs
            /\ ret' = r.ret
            /\ trials' = r.trials
            /\ okKeyslots' = IF r.ret.ok THEN okKeyslots + 1 ELSE okKeyslots
            /\ UNCHANGED <<okObjects, added, jobVars>>

AddObject ==
    \E object_type \in ObjectTypes, master_key \in MasterKeys, data \in Data,
       nonce \in Nonces, encrypted \in BOOLEAN :
        LET r == add_object(header, object_type, master_key, data, nonce, encrypted)
        IN  /\ header' = r.self
            /\ before' = header
            /\ op' = "add_object"
            /\ args' = NoArgs
            /\ ret' = r.ret
            /\ trials' = r.trials
            /\ okObjects' = IF r.ret.ok THEN okObjects + 1 ELSE okObjects
            /\ added' = IF r.ret.ok
                        THEN Append(added, [master_key |-> master_key, data |-> data])
                        ELSE added
            /\ UNCHANGED <<okKeyslots, jobVars>>

DecryptObject ==
    \E index \in 0..OBJECT_LIMIT, master_key \in MasterKeys :
        LET r == decrypt_object(header, index, master_key)
        IN  /\ header' = r.self
            /\ before' = header
            /\ op' = "decrypt_object"
            /\ args' = [index |-> index, master_key |-> master_key]
            /\ ret' = r.ret
            /\ trials' = r.trials
            /\ UNCHANGED <<okKeyslots, okObjects, added, jobVars>>

\* the candidate sequences handed to decrypt_master_key
Candidates == UNION {[1..n -> HashedKeys] : n \in 0..MaxCandidates}

DecryptMasterKey ==
    \E keys \in Candidates :
        LET r == decrypt_master_key(header, keys)
        IN  /\ header' = r.self
            /\ before' = header
            /\ op' = "decrypt_master_key"
            /\ args' = [keys |-> keys]
            /\ ret' = r.ret
            /\ trials' = r.trials
            /\ UNCHANGED <<okKeyslots, okObjects, added, jobVars>>

DecryptMasterKeyWithPassword ==
    \E password \in Passwords, failing \in SUBSET HashingAlgorithms :
        LET r == decrypt_master_key_with_password(header, password, failing)
        IN  /\ header' = r.self
            /\ before' = header
            /\ op' = "decrypt_master_key_with_password"
            /\ args' = [password |-> password, failing |-> failing]
            /\ ret' = r.ret
            /\ trials' = r.trials
            /\ UNCHANGED <<okKeyslots, okObjects, added, jobVars>>

\* building a header and reading its objects
Next ==
    \/ AddKeyslot
    \/ AddObject
    \/ DecryptObject

Spec == Init /\ [][Next]_vars

\* giving a header its keyslots and recovering the master key
NextKeys ==
    \/ AddKeyslot
    \/ DecryptMasterKey
    \/ DecryptMasterKeyWithPassword

SpecKeys == Init /\ [][NextKeys]_vars

(***************************************************************************)
(* A restore call, step by step                                            *)
(***************************************************************************)
RestoreCall ==
    /\ pc = "idle"
    /\ restores < MaxRestores
    /\ \E rep \in Reports, bytes \in Seeds :
          /\ report' = rep
          /\ job_state_data' = bytes
    /\ pc' = "decode"
    /\ decoded' = NoJobState
    /\ calls' = 0
    /\ restoreRet' = Ok("pending")
    /\ restores' = restores + 1
    /\ UNCHANGED <<dispatched, headerVars>>

RestoreDecode ==
    /\ pc = "decode"
    /\ LET r == restore_state(job_state_data) IN
          IF r.ok
          THEN /\ decoded' = r.val
               /\ pc' = "dispatch"
               /\ UNCHANGED restoreRet
          ELSE /\ restoreRet' = r
               /\ pc' = "idle"
               /\ UNCHANGED decoded
    /\ UNCHANGED <<report, job_state_data, dispatched, calls, restores, headerVars>>

RestoreDispatch ==
    /\ pc = "dispatch"
    /\ dispatched' = restore_dispatch(dispatched, report, decoded)
    /\ calls' = calls + (Len(dispatched') - Len(dispatched))
    /\ pc' = "return"
    /\ UNCHANGED <<report, job_state_data, decoded, restoreRet, restores, headerVars>>

RestoreReturn ==
    /\ pc = "return"
    /\ restoreRet' = Ok("unit")
    /\ pc' = "idle"
    /\ UNCHANGED <<report, job_state_data, decoded, dispatched, calls, restores, headerVars>>

NextJob ==
    \/ RestoreCall
    \/ RestoreDecode
    \/ RestoreDispatch
    \/ RestoreReturn

\* restore does not touch the header: one fresh header is enough here
InitJob == Init /\ header.algorithm = "XChaCha20Poly1305"

SpecJob == InitJob /\ [][NextJob]_vars

(***************************************************************************)
(* Properties of the header                                                *)
(***************************************************************************)
Last(seq) == seq[Len(seq)]
Min(S) == CHOOSE x \in S : \A y \in S : x <= y

\* C1: a header that already holds 2 keyslots answers add_keyslot with
\* TooManyKeyslots, one that already holds 2 objects answers add_object with
\* TooManyObjects, and in both cases the header (every field, hence its
\* serialized bytes) is as it was before the call.
C1_FullHeaderRejectsAndKeeps ==
    /\ (op = "add_keyslot" /\ count_keyslots(before) = 2) =>
          /\ ret = Err("TooManyKeyslots")
          /\ header = before
          /\ serialize(header) = serialize(before)
    /\ (op = "add_object" /\ count_objects(before) = 2) =>
          /\ ret = Err("TooManyObjects")
          /\ header = before
          /\ serialize(header) = serialize(before)

\* a third add_keyslot was refused on a header that also holds two objects
C1_Witness ==
    /\ op = "add_keyslot"
    /\ count_keyslots(before) = 2
    /\ count_objects(before) = 2
    /\ ret = Err("TooManyKeyslots")

\* C2: in every reachable state both counts are within 0..2 and each equals
\* the number of calls of its operation that returned Ok.
C2_CountsBoundedAndExact ==
    /\ count_keyslots(header) \in 0..2
    /\ count_objects(header) \in 0..2
    /\ count_keyslots(header) = okKeyslots
    /\ count_objects(header) = okObjects

\* both lists are full and the last add_object failed
C2_Witness ==
    /\ okKeyslots = 2
    /\ okObjects = 2
    /\ op = "add_object"
    /\ ~ret.ok

\* C5: decrypt_object(i, K) yields the plaintext of the i-th successful
\* add_object (counting from 0, in call order) when given the master key K of
\* that call, whatever add_keyslot calls were interleaved.
C5_ObjectsDecryptInInsertionOrder ==
    /\ Len(added) = count_objects(header)
    /\ \A i \in 1..Len(added) :
          decrypt_object(header, i - 1, added[i].master_key).ret = Ok(added[i].data)
    /\ (/\ op = "decrypt_object"
        /\ args.index < Len(added)
        /\ args.master_key = added[args.index + 1].master_key) =>
          ret = Ok(added[args.index + 1].data)

\* two objects with different plaintexts and a keyslot in between; the second
\* object was just read back
C5_Witness ==
    /\ Len(added) = 2
    /\ added[1].data # added[2].data
    /\ count_keyslots(header) >= 1
    /\ op = "decrypt_object"
    /\ args.index = 1
    /\ ret = Ok(added[2].data)

\* C6: decrypt_object answers Index, without attempting a decryption, exactly
\* for the indices >= count_objects(); for a smaller index it answers with the
\* result of decrypting the object stored at that index.
C6_DecryptObjectBoundsChecked ==
    op = "decrypt_object" =>
        IF args.index >= count_objects(header)
        THEN ret = Err("Index") /\ trials = <<>>
        ELSE /\ ret # Err("Index")
             /\ ret = FileHeaderObject001_decrypt(header.objects[args.index + 1],
                                                  header.algorithm, header.aad, args.master_key)
             /\ trials = <<[what |-> "decrypt", index |-> args.index]>>

\* the index just past the last object of a full header was refused
C6_Witness ==
    /\ op = "decrypt_object"
    /\ count_objects(header) = 2
    /\ args.index = 2
    /\ ret = Err("Index")

(***************************************************************************)
(* Properties of master key recovery                                       *)
(***************************************************************************)
\* the master key a keyslot wraps
Wrapped(v) == v.master_key.pt

\* whether the hashed key opens the k-th keyslot of the header
Opens(hashed_key, k) ==
    Keyslot001_decrypt(header.keyslots[k], header.algorithm, hashed_key).ok

\* the i-th (candidate, keyslot) pair when every candidate is tried on every
\* one of n keyslots, candidates first
PairAt(i, n) == <<((i - 1) \div n) + 1, ((i - 1) % n) + 1>>

\* C3: on a header with keyslots, decrypt_master_key tries candidate after
\* candidate and, for each, keyslot after keyslot; it returns the master key of
\* the first pair that decrypts, goes on after every failed trial, and returns
\* IncorrectPassword exactly when no pair decrypts.
C3_FirstCandidateKeyslotPairWins ==
    (op = "decrypt_master_key" /\ count_keyslots(header) >= 1) =>
        LET keys == args.keys
            n == count_keyslots(header)
            total == Len(keys) * n
            good == {i \in 1..total : Opens(keys[PairAt(i, n)[1]], PairAt(i, n)[2])}
            tried == IF good = {} THEN total ELSE Min(good)
        IN  /\ (ret = Err("IncorrectPassword")) <=> (good = {})
            /\ good # {} => ret = Ok(Wrapped(header.keyslots[PairAt(Min(good), n)[2]]))
            /\ Len(trials) = tried
            /\ \A i \in 1..tried :
                  trials[i] = [what |-> "decrypt", key |-> PairAt(i, n)[1],
                               slot |-> PairAt(i, n)[2]]

\* the second candidate opened the second keyslot after three failed trials,
\* and the two keyslots wrap different master keys
C3_Witness ==
    /\ op = "decrypt_master_key"
    /\ count_keyslots(header) = 2
    /\ Wrapped(header.keyslots[1]) # Wrapped(header.keyslots[2])
    /\ Len(trials) = 4
    /\ ret = Ok(Wrapped(header.keyslots[2]))

\* the hashed key the password gives for the k-th keyslot when hashing succeeds
HashedFor(password, k) ==
    Hash(header.keyslots[k].hashing_algorithm, password,
         header.keyslots[k].content_salt, {}).val

\* C4: when hashing succeeds on every keyslot visited,
\* decrypt_master_key_with_password returns the master key of the first
\* keyslot in stored order that the password unlocks (so a password that only
\* unlocks the second keyslot still succeeds), and IncorrectPassword when it
\* unlocks none.
C4_PasswordFindsFirstUnlockedKeyslot ==
    (op = "decrypt_master_key_with_password" /\ count_keyslots(header) >= 1) =>
        LET n == count_keyslots(header)
            unlocked == {k \in 1..n : Opens(HashedFor(args.password, k), k)}
            visited == IF unlocked = {} THEN 1..n ELSE 1..Min(unlocked)
            hashed == \A k \in visited :
                          header.keyslots[k].hashing_algorithm \notin args.failing
        IN  hashed =>
                IF unlocked = {}
                THEN ret = Err("IncorrectPassword")
                ELSE ret = Ok(Wrapped(header.keyslots[Min(unlocked)]))

\* keyslots added under password A, then B, both wrapping K; password B got K
C4_Witness ==
    /\ op = "decrypt_master_key_with_password"
    /\ count_keyslots(header) = 2
    /\ header.keyslots[1].master_key.key.from.pw = "A"
    /\ header.keyslots[2].master_key.key.from.pw = "B"
    /\ Wrapped(header.keyslots[1]) = Wrapped(header.keyslots[2])
    /\ args.password = "B"
    /\ ~Opens(HashedFor("B", 1), 1)
    /\ ret = Ok(Wrapped(header.keyslots[1]))

\* C7: decrypt_master_key_with_password returns PasswordHash exactly when the
\* first keyslot that either fails to hash or decrypts is one that fails to
\* hash; a keyslot that hashes but does not decrypt is followed by an attempt
\* on the next keyslot.
C7_HashFailureReportedDecryptFailureSkipped ==
    (op = "decrypt_master_key_with_password" /\ count_keyslots(header) >= 1) =>
        LET n == count_keyslots(header)
            unhashed == {k \in 1..n :
                            header.keyslots[k].hashing_algorithm \in args.failing}
            unlocked == {k \in (1..n) \ unhashed : Opens(HashedFor(args.password, k), k)}
            stops == unhashed \cup unlocked
        IN  /\ (ret = Err("PasswordHash")) <=> (stops # {} /\ Min(stops) \in unhashed)
            /\ \A i \in 1..Len(trials) :
                  (/\ trials[i].what = "decrypt"
                   /\ trials[i].slot \notin unlocked
                   /\ trials[i].slot < n) =>
                      /\ i < Len(trials)
                      /\ trials[i + 1] = [what |-> "hash", slot |-> trials[i].slot + 1]

\* the first keyslot hashed but did not decrypt, the second failed to hash
C7_Witness ==
    /\ op = "decrypt_master_key_with_password"
    /\ ret = Err("PasswordHash")
    /\ trials = <<[what |-> "hash", slot |-> 1], [what |-> "decrypt", slot |-> 1],
                  [what |-> "hash", slot |-> 2]>>

\* C10: both master key operations return NoKeyslots exactly when the header
\* has no keyslot, and on such a header they hash and decrypt nothing.
C10_NoKeyslotsIffEmpty ==
    op \in {"decrypt_master_key", "decrypt_master_key_with_password"} =>
        /\ (ret = Err("NoKeyslots")) <=> (count_keyslots(header) = 0)
        /\ count_keyslots(header) = 0 => trials = <<>>

\* a password whose hashing would fail was tried on a header without keyslots
C10_Witness ==
    /\ op = "decrypt_master_key_with_password"
    /\ count_keyslots(header) = 0
    /\ args.failing = HashingAlgorithms
    /\ ret = Err("NoKeyslots")

(***************************************************************************)
(* Properties of restore                                                   *)
(***************************************************************************)
Returned == pc = "idle" /\ restores > 0

\* C8: a restore whose seed decodes has, when it returns, called
\* internal_dispatch_job exactly once, with its report and the decoded state
\* (init, data, steps and step_number as persisted), and returns Ok.
C8_RestoreDispatchesDecodedStateOnce ==
    (Returned /\ from_slice(job_state_data).ok) =>
        /\ restoreRet = Ok("unit")
        /\ calls = 1
        /\ dispatched # <<>>
        /\ Last(dispatched) = [report |-> report, state |-> from_slice(job_state_data).val]
        /\ \A s \in JobStates : job_state_data = to_vec(s) => Last(dispatched).state = s

\* a state with data, two queued steps and one step done was restored
C8_Witness ==
    /\ Returned
    /\ restoreRet = Ok("unit")
    /\ dispatched # <<>>
    /\ Last(dispatched).state = JobState(1, <<1>>, <<1, 1>>, 1)
    /\ job_state_data = to_vec(JobState(1, <<1>>, <<1, 1>>, 1))

\* C9: a restore whose seed does not decode never calls internal_dispatch_job
\* and returns StateDecode; a dispatch happens only after a successful decode.
C9_UndecodableSeedIsNotDispatched ==
    /\ (restores > 0 /\ ~from_slice(job_state_data).ok) =>
          /\ calls = 0
          /\ pc \in {"decode", "idle"}
          /\ pc = "idle" => restoreRet = Err("StateDecode")
    /\ (pc \in {"dispatch", "return"} \/ calls > 0) =>
          /\ from_slice(job_state_data).ok
          /\ decoded = from_slice(job_state_data).val

\* after one job was restored, a truncated seed was refused
C9_Witness ==
    /\ Returned
    /\ restoreRet = Err("StateDecode")
    /\ Len(dispatched) = 1
    /\ job_state_data # <<>>

====
